---- MODULE Spec2Model ----
(***************************************************************************)
(* argz: a command-line argument binder (include/argz/argz.hpp).           *)
(*                                                                         *)
(* The model follows argz::parse token by token.  A token and an option id *)
(* are sequences of one-character strings, so that stripping dashes, alias *)
(* lookup and the numeric conversions work on characters as the code does. *)
(*                                                                         *)
(* parse reads argv from left to right, every index at most once, and      *)
(* never looks ahead.  The caller's token at an index is therefore drawn   *)
(* when parse first reads that index; argv holds the tokens read so far    *)
(* and argc says how many there are.                                       *)
(***************************************************************************)
EXTENDS Integers, Sequences, FiniteSets, TLC

\* ------------------------------------------------------------------------
\* Bounds of the model
\* ------------------------------------------------------------------------
\* largest argc (argv[0] is the program name)
MaxArgc == 4
\* largest number of options in the table
MaxOpts == 2

\* ------------------------------------------------------------------------
\* Characters and tokens
\* ------------------------------------------------------------------------
\* the terminating '\0' of a C string, and ids_t::alias when no alias is set
NUL == "NUL"

Prog == <<"p">>

T_empty   == <<>>
T_7       == <<"7">>
T_7x      == <<"7", "x">>
T_nan     == <<"n", "a", "n">>
T_sp7     == <<" ", "7">>
T_dash    == <<"-">>
T_ddash   == <<"-", "-">>
T_h       == <<"-", "h">>
T_help    == <<"-", "-", "h", "e", "l", "p">>
T_v       == <<"-", "v">>
T_n       == <<"-", "n">>
T_nm      == <<"-", "-", "n", "m">>
T_q       == <<"-", "q">>
T_zz      == <<"-", "-", "z", "z">>

S_h       == <<"h">>
S_help    == <<"h", "e", "l", "p">>
S_v       == <<"v">>
S_version == <<"v", "e", "r", "s", "i", "o", "n">>

Id_nm     == <<"n", "m">>
Id_n      == <<"n">>

\* ------------------------------------------------------------------------
\* var: the alternatives of the variant, by the type the reference points to
\* ------------------------------------------------------------------------
PlainNumeric == {"int32", "uint32", "int64", "uint64", "double"}
PlainKinds   == {"bool", "string", "path"} \cup PlainNumeric
OptKinds     == {"opt_int32", "opt_uint32", "opt_int64", "opt_uint64",
                 "opt_double", "opt_string", "opt_path"}
var          == PlainKinds \cup OptKinds

\* T of ref_opt<T>
Inner(kind) ==
  CASE kind = "opt_int32"  -> "int32"
    [] kind = "opt_uint32" -> "uint32"
    [] kind = "opt_int64"  -> "int64"
    [] kind = "opt_uint64" -> "uint64"
    [] kind = "opt_double" -> "double"
    [] kind = "opt_string" -> "string"
    [] kind = "opt_path"   -> "path"

\* ------------------------------------------------------------------------
\* std::stol and std::stod, as detail::parse calls them (base 10)
\* ------------------------------------------------------------------------
\* of the characters of the tokens, the blank is the only white space
IsSpace(c) == c \in {" "}
IsDigit(c) == c \in {"0", "1", "2", "3", "4", "5", "6", "7", "8", "9"}
DigitVal(c) ==
  CASE c = "0" -> 0 [] c = "1" -> 1 [] c = "2" -> 2 [] c = "3" -> 3
    [] c = "4" -> 4 [] c = "5" -> 5 [] c = "6" -> 6 [] c = "7" -> 7
    [] c = "8" -> 8 [] c = "9" -> 9

RECURSIVE SkipSpace(_)
SkipSpace(s) ==
  IF s # <<>> /\ IsSpace(Head(s)) THEN SkipSpace(Tail(s)) ELSE s

\* a leading '+' or '-' is consumed; neg is TRUE for '-'
SignOf(s) ==
  IF s # <<>> /\ Head(s) \in {"-", "+"}
  THEN [neg |-> Head(s) = "-", rest |-> Tail(s)]
  ELSE [neg |-> FALSE, rest |-> s]

\* the longest prefix of decimal digits
RECURSIVE DigitsPrefix(_)
DigitsPrefix(s) ==
  IF s # <<>> /\ IsDigit(Head(s)) THEN <<Head(s)>> \o DigitsPrefix(Tail(s))
  ELSE <<>>

RECURSIVE DigitsValue(_, _)
DigitsValue(ds, acc) ==
  IF ds = <<>> THEN acc ELSE DigitsValue(Tail(ds), acc * 10 + DigitVal(Head(ds)))

IsPrefix(p, s) == Len(p) <= Len(s) /\ SubSeq(s, 1, Len(p)) = p

\* std::stol(str): skips white space, takes an optional sign and the longest
\* run of digits, and ignores whatever follows; with no digit at all it
\* throws std::invalid_argument.  (std::out_of_range needs 19 digits or
\* more; the tokens of the model are shorter.)
stol(s) ==
  LET sg == SignOf(SkipSpace(s))
      ds == DigitsPrefix(sg.rest)
  IN  IF ds = <<>>
      THEN [ok |-> FALSE, val |-> 0]
      ELSE [ok |-> TRUE,
            val |-> IF sg.neg THEN 0 - DigitsValue(ds, 0) ELSE DigitsValue(ds, 0)]

\* std::stod(str): as strtod, white space, an optional sign, then "inf",
\* "nan" or a decimal number; whatever follows is ignored.  A double is
\* <<class, sign, digits>>.  (Fractions, exponents and the hexadecimal form
\* need '.', a digit after 'e' or "0x"; the tokens of the model contain none
\* of them.)
stod(s) ==
  LET sg == SignOf(SkipSpace(s))
      ds == DigitsPrefix(sg.rest)
      sn == IF sg.neg THEN -1 ELSE 1
  IN  IF IsPrefix(<<"i", "n", "f">>, sg.rest) THEN [ok |-> TRUE, val |-> <<"inf", sn, 0>>]
      ELSE IF IsPrefix(<<"n", "a", "n">>, sg.rest) THEN [ok |-> TRUE, val |-> <<"nan", sn, 0>>]
      ELSE IF ds = <<>> THEN [ok |-> FALSE, val |-> <<"fin", 1, 0>>]
      ELSE [ok |-> TRUE, val |-> <<"fin", sn, DigitsValue(ds, 0)>>]

\* static_cast<T>(long).  A value of the model is below 2^31 in magnitude,
\* where the cast to a signed type and the cast of a non-negative value to
\* an unsigned type keep the value; a negative value cast to an unsigned
\* type wraps to 2^w + v, written <<w, v>>.
Narrow(kind, v) ==
  IF kind \in {"uint32", "uint64"} /\ v < 0
  THEN <<IF kind = "uint32" THEN 32 ELSE 64, v>>
  ELSE v

\* T{} of the temporary in the ref_opt<T> branch
ValueInit(kind) ==
  CASE kind = "bool" -> FALSE
    [] kind \in {"string", "path"} -> <<>>
    [] kind = "double" -> <<"fin", 1, 0>>
    [] OTHER -> 0

\* ParsePlain with the slot assigned before the conversion is known to have
\* succeeded (as strtol-style code without the exception would do)
ParsePlain_assigns(str, kind, old) ==
  CASE kind \in {"string", "path"} -> [err |-> "none", val |-> str]
    [] kind = "bool"   -> [err |-> "none", val |-> (str = <<"t", "r", "u", "e">>)]
    [] kind = "double" -> [err |-> IF stod(str).ok THEN "none" ELSE "MalformedNumber",
                           val |-> stod(str).val]
    [] OTHER           -> [err |-> IF stol(str).ok THEN "none" ELSE "MalformedNumber",
                           val |-> Narrow(kind, stol(str).val)]

\* detail::parse(c, v) for a non-null c and a plain (non-optional) v: the
\* value of the slot afterwards, and the exception thrown, if any.  stol and
\* stod throw before the assignment, so the slot keeps its old value.
ParsePlain(str, kind, old) ==
  CASE kind \in {"string", "path"} -> [err |-> "none", val |-> str]
    [] kind = "bool"   -> [err |-> "none", val |-> (str = <<"t", "r", "u", "e">>)]
    [] kind = "double" -> IF stod(str).ok
                          THEN [err |-> "none", val |-> stod(str).val]
                          ELSE [err |-> "MalformedNumber", val |-> old]
    [] OTHER           -> IF stol(str).ok
                          THEN [err |-> "none", val |-> Narrow(kind, stol(str).val)]
                          ELSE [err |-> "MalformedNumber", val |-> old]

\* detail::parse(c, v).  c is [null, s]: a null pointer, or the string s.
\* An optional slot is <<>> when absent and <<x>> when it holds x.
detail_parse(c, kind, old) ==
  IF c.null THEN [err |-> "none", val |-> old]
  ELSE IF kind \in OptKinds
       THEN LET temp == ParsePlain(c.s, Inner(kind), ValueInit(Inner(kind)))
            IN  IF temp.err = "none"
                THEN [err |-> "none", val |-> <<temp.val>>]
                ELSE [err |-> temp.err, val |-> old]
       ELSE ParsePlain(c.s, kind, old)

\* ------------------------------------------------------------------------
\* The state of one call parse(about, opts, argc, argv)
\* ------------------------------------------------------------------------
VARIABLES
  about,   \* struct about: print_help_when_no_options, printed_help, printed_version
  opts,    \* the option table: per option ids.id, ids.alias and the alternative of value
  slots,   \* slots[k]: the caller's variable that opts[k].value refers to
  argc,    \* number of tokens
  argv,    \* argv[0 .. n-1]: the tokens read so far
  i,       \* the loop index of parse
  str,     \* the local str of parse: the identifier the last scanned flag resolved to
  pc,      \* "start", "scan", "returned", "thrown" (an exception left parse), "crashed"
  err,     \* which exception left parse
  out,     \* what was written to std::cout: "help" and "version" blocks, in order
  trace    \* per scanned flag: its index, what the loop body did, and the reads of argv[++i]

vars == <<about, opts, slots, argc, argv, i, str, pc, err, out, trace>>

\* the value the caller's variable holds before parse is called
SlotInit(kind) ==
  CASE kind = "bool" -> FALSE
    [] kind \in {"string", "path"} -> <<"d">>
    [] kind = "double" -> <<"fin", 1, 1>>
    [] kind \in OptKinds -> <<>>
    [] OTHER -> 1

\* the tokens a caller passes
Tokens == {T_empty, T_7, T_7x, T_nan, T_sp7,
           T_dash, T_ddash, T_h, T_help, T_v, T_n, T_nm, T_q, T_zz}

\* the options the scanner is run on: long ids of two characters and of
\* one, with and without an alias, boolean or not, and an option that
\* declares the reserved help and h
ScanOptions ==
  [id : {Id_nm}, alias : {NUL, "n"}, kind : {"bool", "int32"}]
    \cup [id : {Id_n}, alias : {NUL, "n"}, kind : {"bool"}]
    \cup {[id |-> S_help, alias |-> "h", kind |-> "bool"]}

\* the options the coercions are run on: one option of every alternative
KindOptions == [id : {Id_nm}, alias : {"n"}, kind : var]

SeqsUpTo(S, n) == UNION {[1..m -> S] : m \in 0..n}

InitWith(tables) ==
  /\ about \in [print_help_when_no_options : BOOLEAN,
                printed_help : {FALSE}, printed_version : {FALSE}]
  /\ opts \in tables
  /\ slots = [k \in 1..Len(opts) |-> SlotInit(opts[k].kind)]
  /\ argc \in 1..MaxArgc
  /\ argv = (0 :> Prog)
  /\ i = 0
  /\ str = <<>>
  /\ pc = "start"
  /\ err = "none"
  /\ out = <<>>
  /\ trace = <<>>

Init == InitWith(SeqsUpTo(ScanOptions, MaxOpts))

InitKinds == InitWith([1..1 -> KindOptions])

\* ------------------------------------------------------------------------
\* help(about, opts)
\* ------------------------------------------------------------------------
help(a) == [a EXCEPT !.printed_help = TRUE]

\* ------------------------------------------------------------------------
\* parse(about, opts, argc, argv)
\* ------------------------------------------------------------------------
\* *flag: the first character of a C string, '\0' when it is empty
Deref(s) == IF s = <<>> THEN NUL ELSE Head(s)

\* ++flag; if (*flag == '-') ++flag;   for a token that starts with '-'
Strip(tok) ==
  LET f == Tail(tok) IN IF Deref(f) = "-" THEN Tail(f) ELSE f

\* the lambda get_id: the id of the first option with that alias, or empty
RECURSIVE get_id_from(_, _)
get_id_from(k, alias) ==
  IF k > Len(opts) THEN <<>>
  ELSE IF opts[k].alias = alias THEN opts[k].id
  ELSE get_id_from(k + 1, alias)

\* get_id that falls back to an option whose long id is that one character
get_id_or_id(alias) ==
  IF get_id_from(1, alias) # <<>> THEN get_id_from(1, alias)
  ELSE IF \E k \in 1..Len(opts) : opts[k].id = <<alias>> THEN <<alias>>
  ELSE <<>>

get_id(alias) == get_id_from(1, alias)

\* argv[j] as detail::parse receives it.  Below argc it is the caller's
\* token.  At argc and beyond the read is outside the array the caller
\* passed: the pointer may be null (as argv[argc] of main is), may point at
\* some string, or the read of the pointer or of what it points at may
\* fault.
Garbage == {T_empty, T_7}

ReadArgv(j) ==
  IF j < argc
  THEN {[fault |-> FALSE, null |-> FALSE, s |-> t] : t \in Tokens}
  ELSE {[fault |-> TRUE, null |-> FALSE, s |-> <<>>],
        [fault |-> FALSE, null |-> TRUE, s |-> <<>>]}
       \cup {[fault |-> FALSE, null |-> FALSE, s |-> g] : g \in Garbage}

\* detail::parse(argv[++i], v) for option k, when argv[i] turns out to be c
BindOne(k, st, c) ==
  LET j == st.i + 1
      r == detail_parse(c, opts[k].kind, st.slots[k])
      rd == [st EXCEPT !.i = j,
                       !.values = Append(@, j),
                       !.argv = IF j < argc THEN @ @@ (j :> c.s) ELSE @]
  IN  IF c.fault THEN [rd EXCEPT !.pc = "crashed"]
      ELSE IF r.err # "none"
           THEN [rd EXCEPT !.slots[k] = r.val, !.pc = "thrown", !.err = r.err]
           ELSE [rd EXCEPT !.slots[k] = r.val, !.bound = Append(@, k)]

\* one pass of    for (auto& [ids, v, h] : opts) if (ids.id == str) ...
\* from option k on.  st carries slots, i, argv, the control state and the
\* options bound and argv indices read so far; the result is the set of
\* states the pass can end in.
RECURSIVE Bind(_, _, _)
Bind(k, id, st) ==
  IF k > Len(opts) \/ st.pc # "scan" THEN {st}
  ELSE IF opts[k].id # id THEN Bind(k + 1, id, st)
  ELSE IF opts[k].kind = "bool"
       THEN Bind(k + 1, id, [st EXCEPT !.slots[k] = TRUE, !.bound = Append(@, k)])
       ELSE UNION {Bind(k + 1, id, BindOne(k, st, c)) : c \in ReadArgv(st.i + 1)}

Entry(what, id, bound, values) ==
  [at |-> i, what |-> what, id |-> id, bound |-> bound, values |-> values]

\* argc == 1: help if the policy flag is set, then return
ParseNoOptions ==
  /\ pc = "start"
  /\ argc = 1
  /\ about' = IF about.print_help_when_no_options THEN help(about) ELSE about
  /\ out' = IF about.print_help_when_no_options THEN Append(out, "help") ELSE out
  /\ pc' = "returned"
  /\ UNCHANGED <<opts, slots, argc, argv, i, str, err, trace>>

\* otherwise the loop starts at i = 1
ParseBegin ==
  /\ pc = "start"
  /\ argc # 1
  /\ i' = 1
  /\ pc' = "scan"
  /\ UNCHANGED <<about, opts, slots, argc, argv, str, err, out, trace>>

\* const char* flag = argv[i], for the token the caller put there
ReadsFlag(tok) ==
  /\ pc = "scan"
  /\ i < argc
  /\ argv' = argv @@ (i :> tok)

\* ScanExpectedPrefix that skips the token instead of throwing
ScanExpectedPrefix_skip ==
  \E tok \in Tokens :
    /\ ReadsFlag(tok)
    /\ Deref(tok) # "-"
    /\ i' = i + 1
    /\ trace' = Append(trace, Entry("skip", <<>>, <<>>, <<>>))
    /\ UNCHANGED <<about, opts, slots, argc, str, pc, err, out>>

\* if (*flag != '-') throw std::runtime_error("Expected '-'")
ScanExpectedPrefix ==
  \E tok \in Tokens :
    /\ ReadsFlag(tok)
    /\ Deref(tok) # "-"
    /\ pc' = "thrown"
    /\ err' = "ExpectedFlagPrefix"
    /\ trace' = Append(trace, Entry("throw", <<>>, <<>>, <<>>))
    /\ UNCHANGED <<about, opts, slots, argc, i, str, out>>

\* ScanHelp that returns from parse once help is printed
ScanHelp_return ==
  \E tok \in Tokens :
    /\ ReadsFlag(tok)
    /\ Deref(tok) = "-"
    /\ Strip(tok) \in {S_h, S_help}
    /\ about' = help(about)
    /\ out' = Append(out, "help")
    /\ str' = Strip(tok)
    /\ pc' = "returned"
    /\ trace' = Append(trace, Entry("help", Strip(tok), <<>>, <<>>))
    /\ UNCHANGED <<opts, slots, argc, i, err>>

\* str == "h" || str == "help": help(about, opts); continue
ScanHelp ==
  \E tok \in Tokens :
    /\ ReadsFlag(tok)
    /\ Deref(tok) = "-"
    /\ Strip(tok) \in {S_h, S_help}
    /\ about' = help(about)
    /\ out' = Append(out, "help")
    /\ str' = Strip(tok)
    /\ i' = i + 1
    /\ trace' = Append(trace, Entry("help", Strip(tok), <<>>, <<>>))
    /\ UNCHANGED <<opts, slots, argc, pc, err>>

\* str == "v" || str == "version": print the version; continue
ScanVersion ==
  \E tok \in Tokens :
    /\ ReadsFlag(tok)
    /\ Deref(tok) = "-"
    /\ Strip(tok) \in {S_v, S_version}
    /\ about' = [about EXCEPT !.printed_version = TRUE]
    /\ out' = Append(out, "version")
    /\ str' = Strip(tok)
    /\ i' = i + 1
    /\ trace' = Append(trace, Entry("version", Strip(tok), <<>>, <<>>))
    /\ UNCHANGED <<opts, slots, argc, pc, err>>

\* a token that is neither help nor version
IsOptionFlag(tok) ==
  /\ Deref(tok) = "-"
  /\ Strip(tok) \notin {S_h, S_help, S_v, S_version}

\* if (str.size() == 1) str = get_id(*flag);
Resolve(tok) ==
  IF Len(Strip(tok)) = 1 THEN get_id(Head(Strip(tok))) ELSE Strip(tok)

\* str.size() == 1 and get_id returns empty: throw std::runtime_error
ScanInvalidAlias ==
  \E tok \in Tokens :
    /\ ReadsFlag(tok)
    /\ IsOptionFlag(tok)
    /\ Len(Strip(tok)) = 1
    /\ Resolve(tok) = <<>>
    /\ str' = <<>>
    /\ pc' = "thrown"
    /\ err' = "UnknownAlias"
    /\ trace' = Append(trace, Entry("throw", <<>>, <<>>, <<>>))
    /\ UNCHANGED <<about, opts, slots, argc, i, out>>

\* ScanBreak with continue in the place of break
ScanBreak_continue ==
  \E tok \in Tokens :
    /\ ReadsFlag(tok)
    /\ IsOptionFlag(tok)
    /\ Len(Strip(tok)) # 1
    /\ Resolve(tok) = <<>>
    /\ str' = <<>>
    /\ i' = i + 1
    /\ trace' = Append(trace, Entry("break", <<>>, <<>>, <<>>))
    /\ UNCHANGED <<about, opts, slots, argc, pc, err, out>>

\* if (str.empty()) { break; }   and parse returns
ScanBreak ==
  \E tok \in Tokens :
    /\ ReadsFlag(tok)
    /\ IsOptionFlag(tok)
    /\ Len(Strip(tok)) # 1
    /\ Resolve(tok) = <<>>
    /\ str' = <<>>
    /\ pc' = "returned"
    /\ trace' = Append(trace, Entry("break", <<>>, <<>>, <<>>))
    /\ UNCHANGED <<about, opts, slots, argc, i, err, out>>

\* ScanLookup that rejects an identifier no option has
ScanLookup_strict ==
  \E tok \in Tokens :
    /\ pc = "scan"
    /\ i < argc
    /\ IsOptionFlag(tok)
    /\ Resolve(tok) # <<>>
    /\ str' = Resolve(tok)
    /\ \E st \in Bind(1, Resolve(tok),
                      [slots |-> slots, i |-> i, argv |-> argv @@ (i :> tok),
                       pc |-> "scan", err |-> "none",
                       bound |-> <<>>, values |-> <<>>]) :
         LET known == \E k \in 1..Len(opts) : opts[k].id = Resolve(tok)
         IN  /\ slots' = st.slots
             /\ argv' = st.argv
             /\ pc' = IF known THEN st.pc ELSE "thrown"
             /\ err' = IF known THEN st.err ELSE "UnknownOption"
             /\ i' = IF known /\ st.pc = "scan" THEN st.i + 1 ELSE st.i
             /\ trace' = Append(trace,
                                Entry(IF known /\ st.pc = "scan" THEN "lookup" ELSE "throw",
                                      Resolve(tok), st.bound, st.values))
    /\ UNCHANGED <<about, opts, argc, out>>

\* the loop over opts for a non-empty str, then ++i of the outer loop
ScanLookup ==
  \E tok \in Tokens :
    /\ pc = "scan"
    /\ i < argc
    /\ IsOptionFlag(tok)
    /\ Resolve(tok) # <<>>
    /\ str' = Resolve(tok)
    /\ \E st \in Bind(1, Resolve(tok),
                      [slots |-> slots, i |-> i, argv |-> argv @@ (i :> tok),
                       pc |-> "scan", err |-> "none",
                       bound |-> <<>>, values |-> <<>>]) :
         /\ slots' = st.slots
         /\ argv' = st.argv
         /\ pc' = st.pc
         /\ err' = st.err
         /\ i' = IF st.pc = "scan" THEN st.i + 1 ELSE st.i
         /\ trace' = Append(trace, Entry(IF st.pc = "scan" THEN "lookup" ELSE "throw",
                                         Resolve(tok), st.bound, st.values))
    /\ UNCHANGED <<about, opts, argc, out>>

\* i < argc fails: the loop ends and parse returns
ScanEnd ==
  /\ pc = "scan"
  /\ i >= argc
  /\ pc' = "returned"
  /\ UNCHANGED <<about, opts, slots, argc, argv, i, str, err, out, trace>>

Next ==
  \/ ParseNoOptions
  \/ ParseBegin
  \/ ScanExpectedPrefix
  \/ ScanHelp
  \/ ScanVersion
  \/ ScanInvalidAlias
  \/ ScanBreak
  \/ ScanLookup
  \/ ScanEnd

Spec == Init /\ [][Next]_vars

SpecKinds == InitKinds /\ [][Next]_vars

\* ------------------------------------------------------------------------
\* Vocabulary of the properties
\* ------------------------------------------------------------------------
\* parse is about to scan argv[i] as a flag
AtFlag == pc = "scan" /\ i < argc

MinOf(S) == CHOOSE x \in S : \A y \in S : x <= y

\* the options with that long id, and the options that declare that alias
Having(id)   == {k \in 1..Len(opts) : opts[k].id = id}
Declaring(c) == {k \in 1..Len(opts) : opts[k].alias = c}

\* the text of a token after one or two leading dashes
Stripped(tok) ==
  IF Len(tok) >= 2 /\ tok[1] = "-" /\ tok[2] = "-" THEN SubSeq(tok, 3, Len(tok))
  ELSE SubSeq(tok, 2, Len(tok))

Dashed(tok) == Len(tok) >= 1 /\ tok[1] = "-"

\* the entry the step just appended to trace
Appended == trace'[Len(trace')]

\* the token the step reads at the flag position i
Flag == argv'[i]

\* the step scans a flag, other than help and version, whose identifier is
\* the long id of some option
LooksUp ==
  /\ AtFlag
  /\ trace' # trace
  /\ Appended.what \notin {"help", "version"}
  /\ Having(Appended.id) # {}

\* every token the options with that long id could consume is in argv
InRange(id) == i + Cardinality(Having(id)) < argc

\* the indices of argv read by the scans so far, as flags and as values
FlagIndices  == {trace[n].at : n \in 1..Len(trace)}
ValueIndices == UNION {{trace[n].values[m] : m \in 1..Len(trace[n].values)} :
                        n \in 1..Len(trace)}

\* a token that is a decimal number and nothing else
RECURSIVE AllDigits(_)
AllDigits(s) == s = <<>> \/ (IsDigit(Head(s)) /\ AllDigits(Tail(s)))

IsNumber(tok) ==
  LET r == SignOf(SkipSpace(tok)).rest IN r # <<>> /\ AllDigits(r)

\* a token that does not even start with a number: after white space and a
\* sign comes no digit (and, for a double, no '.' with a digit after it and
\* neither "inf" nor "nan")
NoLeadingNumber(tok, kind) ==
  LET r == SignOf(SkipSpace(tok)).rest
  IN  /\ r = <<>> \/ ~IsDigit(r[1])
      /\ kind \in {"double", "opt_double"} =>
           /\ ~(Len(r) >= 2 /\ r[1] = "." /\ IsDigit(r[2]))
           /\ ~IsPrefix(<<"i", "n", "f">>, r)
           /\ ~IsPrefix(<<"n", "a", "n">>, r)

NumericKinds == PlainNumeric \cup (OptKinds \ {"opt_string", "opt_path"})

\* the step coerces the in-range token argv[i + 1] into the slot of option k
Coerces(k) ==
  /\ LooksUp
  /\ InRange(Appended.id)
  /\ k = MinOf(Having(Appended.id))
  /\ opts[k].kind # "bool"

\* ------------------------------------------------------------------------
\* C1.  When the identifier of a flag is the long id of two or more options,
\* only the first of them in table order is bound: the slots of the later
\* ones stay as they were, and the flag consumes no more value tokens than
\* the first option alone would (none for a boolean, one otherwise).
\* ------------------------------------------------------------------------
C1_FirstMatchOnly ==
  [][(LooksUp /\ InRange(Appended.id) /\ Cardinality(Having(Appended.id)) >= 2) =>
       LET first == MinOf(Having(Appended.id))
       IN  /\ \A k \in Having(Appended.id) \ {first} : slots'[k] = slots[k]
           /\ Len(Appended.values) <= IF opts[first].kind = "bool" THEN 0 ELSE 1]_vars

\* ------------------------------------------------------------------------
\* C2.  When the flag of a non-boolean option is scanned at index i and a
\* token X follows at i + 1, X is coerced into the slot of that option by
\* the rule of its tag, X is the only value token consumed, and the scan
\* goes on with the token at i + 2.
\* ------------------------------------------------------------------------
C2_OneValueToken ==
  [][\A k \in 1..Len(opts) : Coerces(k) =>
       LET r == detail_parse([null |-> FALSE, s |-> argv'[i + 1]], opts[k].kind, slots[k])
       IN  /\ Appended.values = <<i + 1>>
           /\ i + 1 \notin FlagIndices'
           /\ IF r.err = "none"
              THEN slots'[k] = r.val /\ pc' = "scan" /\ i' = i + 2
              ELSE slots'[k] = slots[k] /\ pc' = "thrown" /\ err' = r.err]_vars

\* ------------------------------------------------------------------------
\* C3.  When the flag of a boolean option is scanned at index i (by long id
\* or by alias), its slot is true afterwards, no value token is consumed and
\* the scan goes on with the token at i + 1; no step of the scanner turns a
\* boolean slot from true to false.
\* ------------------------------------------------------------------------
C3_BooleanPresence ==
  [][/\ \A k \in 1..Len(opts) :
          (/\ LooksUp
           /\ InRange(Appended.id)
           /\ k = MinOf(Having(Appended.id))
           /\ opts[k].kind = "bool") =>
             /\ slots'[k] = TRUE
             /\ Appended.values = <<>>
             /\ pc' = "scan"
             /\ i' = i + 1
     /\ \A k \in 1..Len(opts) :
          (opts[k].kind = "bool" /\ slots[k] = TRUE) => slots'[k] = TRUE]_vars

\* ------------------------------------------------------------------------
\* C4.  When the flag of a non-boolean option is the last token, parse fails
\* with MissingValue, and no token at index argc or beyond is read.
\* ------------------------------------------------------------------------
C4_MissingValue ==
  /\ \A n \in 1..Len(trace) :
       (/\ trace[n].at = argc - 1
        /\ \E k \in Having(trace[n].id) : opts[k].kind # "bool")
         => pc = "thrown" /\ err = "MissingValue"
  /\ \A j \in ValueIndices : j < argc

\* ------------------------------------------------------------------------
\* C5 as stated.  A token that is not a number, coerced into a numeric slot
\* or an optional numeric slot, makes parse fail with MalformedNumber and
\* leaves the slot as it was.
\* ------------------------------------------------------------------------
C5_NonNumericFails ==
  [][\A k \in 1..Len(opts) :
       (Coerces(k) /\ opts[k].kind \in NumericKinds /\ ~IsNumber(argv'[i + 1])) =>
          pc' = "thrown" /\ err' = "MalformedNumber" /\ slots' = slots]_vars

\* ------------------------------------------------------------------------
\* C5 as amended.  A token that does not start with a number (after white
\* space and a sign: no digit, and for a double no '.' with a digit after it
\* and neither "inf" nor "nan"),
\* coerced into a numeric slot or an optional numeric slot, makes parse fail
\* with MalformedNumber and leaves the slot as it was: a plain slot keeps
\* its value, an absent optional stays absent.
\* ------------------------------------------------------------------------
C5_NoLeadingNumberFails ==
  [][\A k \in 1..Len(opts) :
       (/\ Coerces(k)
        /\ opts[k].kind \in NumericKinds
        /\ NoLeadingNumber(argv'[i + 1], opts[k].kind)) =>
          pc' = "thrown" /\ err' = "MalformedNumber" /\ slots' = slots]_vars

C5_Witness ==
  /\ pc = "thrown"
  /\ err = "MalformedNumber"
  /\ opts[1].kind = "opt_double"
  /\ slots[1] = <<>>
  /\ Len(trace) = 1
  /\ trace[1].values = <<2>>
  /\ argc > 2
  /\ DOMAIN argv = 0..2
  /\ argv[1] = T_n
  /\ argv[2] = T_zz

\* ------------------------------------------------------------------------
\* C6.  A flag of one character c other than h and v: when no option
\* declares the alias c, parse fails with UnknownAlias and binds nothing,
\* also when c is the long id of some option; when some option declares it,
\* the flag resolves to the long id of the first such option in table order.
\* ------------------------------------------------------------------------
C6_AliasResolution ==
  [][(/\ AtFlag
      /\ Dashed(Flag)
      /\ Len(Stripped(Flag)) = 1
      /\ Stripped(Flag) \notin {S_h, S_v}) =>
        LET c == Stripped(Flag)[1]
        IN  IF Declaring(c) = {}
            THEN /\ pc' = "thrown"
                 /\ err' = "UnknownAlias"
                 /\ slots' = slots
                 /\ Appended.bound = <<>>
                 /\ Appended.values = <<>>
            ELSE /\ str' = opts[MinOf(Declaring(c))].id
                 /\ Appended.id = opts[MinOf(Declaring(c))].id
                 /\ err' # "UnknownAlias"]_vars

\* "-n" is rejected although an option has the long id n
C6_Witness ==
  /\ pc = "thrown"
  /\ err = "UnknownAlias"
  /\ argc = 2
  /\ DOMAIN argv = 0..1
  /\ argv[1] = T_n
  /\ Len(opts) = 1
  /\ opts[1] = [id |-> Id_n, alias |-> NUL, kind |-> "bool"]
  /\ slots[1] = FALSE
  /\ Len(trace) = 1

\* ------------------------------------------------------------------------
\* C7.  A token scanned at a flag position that does not start with '-',
\* the empty token included, makes parse fail with ExpectedFlagPrefix; no
\* token after it is processed; a token consumed as a value is not scanned
\* as a flag and so is never subject to this check.
\* ------------------------------------------------------------------------
C7_ExpectedFlagPrefix ==
  [][/\ (AtFlag /\ ~Dashed(Flag)) =>
          /\ pc' = "thrown"
          /\ err' = "ExpectedFlagPrefix"
          /\ UNCHANGED <<about, slots, out, i>>
     /\ pc = "thrown" => UNCHANGED vars
     /\ err' = "ExpectedFlagPrefix" => (AtFlag /\ ~Dashed(Flag))
     /\ FlagIndices' \cap ValueIndices' = {}]_vars

C7_Witness ==
  /\ pc = "thrown"
  /\ err = "ExpectedFlagPrefix"
  /\ argc = 4
  /\ DOMAIN argv = 0..3
  /\ argv[1] = T_nm
  /\ argv[2] = T_7
  /\ argv[3] = T_empty
  /\ Len(trace) = 2
  /\ trace[1].values = <<2>>
  /\ trace[2].at = 3

\* ------------------------------------------------------------------------
\* C8.  A flag whose text after the dashes has two or more characters, is
\* neither help nor version and is no option's long id is ignored: no
\* error, no slot and no Run Context flag changes, nothing is written, no
\* value token is consumed, and the scan goes on with the next token.
\* ------------------------------------------------------------------------
C8_UnknownLongIgnored ==
  [][(/\ AtFlag
      /\ Dashed(Flag)
      /\ Len(Stripped(Flag)) >= 2
      /\ Stripped(Flag) \notin {S_help, S_version}
      /\ Having(Stripped(Flag)) = {}) =>
        /\ pc' = "scan"
        /\ i' = i + 1
        /\ Appended.values = <<>>
        /\ UNCHANGED <<about, slots, out, err>>]_vars

C8_Witness ==
  /\ pc = "returned"
  /\ argc = 3
  /\ DOMAIN argv = 0..2
  /\ argv[1] = T_zz
  /\ argv[2] = T_nm
  /\ Len(trace) = 2
  /\ trace[1].id = <<"z", "z">>
  /\ trace[1].bound = <<>>
  /\ trace[2].bound = <<1>>
  /\ opts[1].kind = "bool"
  /\ slots[1] = TRUE

\* ------------------------------------------------------------------------
\* C9.  A flag whose text is h or help emits help and sets printed_help,
\* whatever print_help_when_no_options is, and printed_help stays true; the
\* scan goes on with the next token, and the flag binds no option, not even
\* one declared with the id or alias h or help.
\* ------------------------------------------------------------------------
C9_HelpContinues ==
  [][/\ (AtFlag /\ Dashed(Flag) /\ Stripped(Flag) \in {S_h, S_help}) =>
          /\ about'.printed_help
          /\ out' = Append(out, "help")
          /\ pc' = "scan"
          /\ i' = i + 1
          /\ Appended.bound = <<>>
          /\ UNCHANGED <<slots, err>>
     /\ about.printed_help => about'.printed_help]_vars

C9_Witness ==
  /\ pc = "thrown"
  /\ err = "ExpectedFlagPrefix"
  /\ ~about.print_help_when_no_options
  /\ about.printed_help
  /\ argc = 4
  /\ DOMAIN argv = 0..3
  /\ argv[1] = T_help
  /\ argv[2] = T_n
  /\ argv[3] = T_7
  /\ Len(opts) = 2
  /\ opts[1] = [id |-> S_help, alias |-> "h", kind |-> "bool"]
  /\ slots[1] = FALSE
  /\ opts[2].kind = "bool"
  /\ slots[2] = TRUE
  /\ Len(trace) = 3

\* ------------------------------------------------------------------------
\* C10.  The tokens "-" and "--" at a flag position end the scan without an
\* error: parse returns, the slots keep the values earlier tokens gave them,
\* and no later token has any effect (none is read).
\* ------------------------------------------------------------------------
C10_EmptyFlagEndsScan ==
  [][/\ (AtFlag /\ Flag \in {T_dash, T_ddash}) =>
          /\ pc' = "returned"
          /\ err' = "none"
          /\ UNCHANGED <<about, slots, out, i>>
     /\ pc = "returned" => UNCHANGED vars]_vars

C10_Witness ==
  /\ pc = "returned"
  /\ err = "none"
  /\ argc = 4
  /\ i = 2
  /\ DOMAIN argv = 0..2
  /\ argv[1] = T_nm
  /\ argv[2] = T_ddash
  /\ Len(trace) = 2
  /\ trace[1].bound = <<1>>
  /\ trace[2].what = "break"
  /\ opts[1].kind = "bool"
  /\ slots[1] = TRUE
  /\ out = <<>>
====
